---- MODULE Spec2Model ----
(***************************************************************************)
(* A model of src/crud.py: the company and employee request handlers over  *)
(* the two tables "companies" and "employees".                             *)
(*                                                                         *)
(* A handler that writes runs in two steps, as its session does: the       *)
(* queries and checks of the handler body, then db.commit(), where the     *)
(* database applies the pending write and enforces its constraints.        *)
(* Requests of different sessions interleave between the two steps.        *)
(*                                                                         *)
(* Python values: None is the empty tuple and a present Optional value v   *)
(* is <<v>>; a nullable column holds such an Optional.  The text of the    *)
(* branches column is a sequence of characters, so that join and split     *)
(* are computed as Python computes them.  A password and a password hash   *)
(* are tuples as well, so that the two can be compared.                    *)
(***************************************************************************)
EXTENDS Integers, Sequences, FiniteSets, TLC

VARIABLES
    companies,   \* the rows of table "companies"
    employees,   \* the rows of table "employees"
    nextId,      \* the next value of the companies.id sequence
    clock,       \* the database clock read by func.now()
    files,       \* the paths written under uploads/
    sess,        \* per request slot: the open session and its pending write
    last,        \* the request step taken last and the response it sent
    listed,      \* the records a client got from its last GET /companies
    touched,     \* ids whose row an update or delete committed since then
    deleted204,  \* per id: how many DELETE requests answered 204
    submitted,   \* per employee id: the password given at registration
    fkEnforced   \* whether the database enforces foreign keys

vars == <<companies, employees, nextId, clock, files, sess, last, listed,
          touched, deleted204, submitted, fkEnforced>>

-----------------------------------------------------------------------------
(* Bounds of the model *)

\* company ids handed out by the sequence: 1..MaxId
MaxId == 2

\* the longest branches list a request submits
MaxBranches == 2

-----------------------------------------------------------------------------
(* Python values *)

None == <<>>

Some(v) == <<v>>

\* ",".join(branches)
RECURSIVE Join(_)
Join(branches) ==
    IF branches = <<>> THEN <<>>
    ELSE IF Len(branches) = 1 THEN branches[1]
    ELSE branches[1] \o <<",">> \o Join(Tail(branches))

\* text.split(",")
RECURSIVE Split(_)
Split(text) ==
    IF \E i \in 1..Len(text) : text[i] = ","
    THEN LET i == CHOOSE k \in 1..Len(text) :
                      /\ text[k] = ","
                      /\ \A j \in 1..(k - 1) : text[j] # ","
         IN  <<SubSeq(text, 1, i - 1)>> \o Split(SubSeq(text, i + 1, Len(text)))
    ELSE <<text>>

\* company.branches.split(",") if company.branches else []
ExpandBranches(text) == IF text # <<>> THEN Split(text) ELSE <<>>

\* save_upload: the path folder/<uuid4 hex><ext of the file name>
SaveUpload(file, folder, uuid) == <<folder, uuid, file.ext>>

\* the path stored for an optional upload: save_upload(f, folder) if f else None
UploadPath(file, folder, uuid) ==
    IF file # None THEN Some(SaveUpload(file[1], folder, uuid)) ELSE None

\* the files an optional upload writes
Written(path) == IF path # None THEN {path[1]} ELSE {}

-----------------------------------------------------------------------------
(* Table companies *)

\* db.query(Company).get(company_id)
HasCompany(id) == \E c \in companies : c.id = id

CompanyById(id) == CHOOSE c \in companies : c.id = id

\* the lookup narrowed to the active rows
EmailInUseActive(email) ==
    \E c \in companies : c.email = email /\ c.is_active

\* db.query(Company).filter(Company.email == email).first()
EmailInUse(email) == \E c \in companies : c.email = email

\* the constraint of column email, unique=True, on a table's rows
UniqueEmails(rows) ==
    \A c, d \in rows : c.email = d.email => c = d

\* the response model built from a row
EnrichCompanyOutput(company) ==
    [id               |-> company.id,
     name             |-> company.name,
     email            |-> company.email,
     phone            |-> company.phone,
     address          |-> company.address,
     city             |-> company.city,
     state            |-> company.state,
     country          |-> company.country,
     branches         |-> ExpandBranches(company.branches),
     certificate_path |-> company.certificate_path,
     logo_path        |-> company.logo_path,
     is_active        |-> company.is_active,
     created_at       |-> company.created_at]

\* Company(name=..., ...) of create_company, the id and created_at left to
\* the database
NewCompany(in, cert_path, logo_path) ==
    [name             |-> in.name,
     email            |-> in.email,
     phone            |-> in.phone,
     address          |-> in.address,
     city             |-> in.city,
     state            |-> Some(in.state),
     country          |-> Some(in.country),
     branches         |-> Join(in.branches),
     certificate_path |-> cert_path,
     logo_path        |-> logo_path,
     is_active        |-> in.is_active]

\* the row the INSERT stores: the id from the sequence, created_at from now()
Inserted(row) ==
    [id               |-> nextId,
     name             |-> row.name,
     email            |-> row.email,
     phone            |-> row.phone,
     address          |-> row.address,
     city             |-> row.city,
     state            |-> row.state,
     country          |-> row.country,
     branches         |-> row.branches,
     certificate_path |-> row.certificate_path,
     logo_path        |-> row.logo_path,
     is_active        |-> row.is_active,
     created_at       |-> clock]

-----------------------------------------------------------------------------
(* Sessions and responses *)

Slots == {1, 2}

Idle == [pc |-> "idle"]

\* a response: the HTTP status and the body (None when there is none)
Response(slot, op, arg, status, body) ==
    [slot |-> slot, op |-> op, arg |-> arg, status |-> status, body |-> body]

\* a handler step that sends no response yet (status 0)
Pending(slot, op, arg) == Response(slot, op, arg, 0, None)

\* creates that passed the check and wait for their commit
PendingCreates == Cardinality({s \in Slots : sess[s].pc = "create_commit"})

UnchangedTables == UNCHANGED <<companies, employees, nextId, clock, fkEnforced>>

UnchangedGhosts == UNCHANGED <<listed, touched, deleted204, submitted>>

-----------------------------------------------------------------------------
(* Constraints the database enforces at commit *)

\* the column declared without unique=True
NoEmailConstraint(rows) == TRUE

\* email = Column(String(255), unique=True, nullable=False)
EmailUniqueConstraint(rows) == UniqueEmails(rows)

\* company = Column(String, ForeignKey("companies.name"), nullable=False)
ForeignKeyHolds(rows, emps) ==
    \A e \in emps : \E c \in rows : c.name = e.company

\* whether the database behind DATABASE_URL accepts the two tables: some
\* databases enforce foreign keys, some do not
ConstraintsHold(rows, emps) ==
    /\ EmailUniqueConstraint(rows)
    /\ fkEnforced => ForeignKeyHolds(rows, emps)

-----------------------------------------------------------------------------
(* POST /companies *)

\* create_company up to db.add: the email check, the uploads, the new row
CreateCompanyCheck(s, in, uc, ul) ==
    /\ sess[s].pc = "idle"
    /\ nextId + PendingCreates <= MaxId
    /\ IF EmailInUse(in.email)
       THEN /\ last' = Response(s, "create_company", in, 400, None)
            /\ UNCHANGED <<sess, files>>
       ELSE LET cert == UploadPath(in.certificate, "uploads/certificates", uc)
                logo == UploadPath(in.logo, "uploads/logos", ul)
            IN  /\ files' = files \cup Written(cert) \cup Written(logo)
                /\ sess' = [sess EXCEPT ![s] =
                              [pc  |-> "create_commit",
                               row |-> NewCompany(in, cert, logo),
                               arg |-> in]]
                /\ last' = Pending(s, "create_company", in)
    /\ UnchangedTables
    /\ UnchangedGhosts

\* db.commit(), db.refresh(company) and the response of create_company
CreateCompanyCommit(s) ==
    /\ sess[s].pc = "create_commit"
    /\ LET row == Inserted(sess[s].row)
       IN  IF ConstraintsHold(companies \cup {row}, employees)
           THEN /\ companies' = companies \cup {row}
                /\ nextId' = nextId + 1
                /\ clock' = clock + 1
                /\ last' = Response(s, "create_company", sess[s].arg, 200,
                                    Some(EnrichCompanyOutput(row)))
           ELSE \* IntegrityError: the transaction is rolled back
                /\ last' = Response(s, "create_company", sess[s].arg, 500, None)
                /\ UNCHANGED <<companies, nextId, clock>>
    /\ sess' = [sess EXCEPT ![s] = Idle]
    /\ UNCHANGED <<employees, files, fkEnforced>>
    /\ UnchangedGhosts

-----------------------------------------------------------------------------
(* GET /companies and GET /companies/{company_id} *)

\* x_region: Optional[str] = Depends(lambda: None)
XRegion == None

\* the query filtered by a region in every case
ListQueryRegion(x_region) == {c \in companies : c.city = Some("X")}

\* the query of list_companies
ListQuery(x_region) ==
    IF x_region # None
    THEN {c \in companies : c.city = x_region}
    ELSE companies

ListCompaniesResponse(s) ==
    Response(s, "list_companies", None, 200,
             {EnrichCompanyOutput(c) : c \in ListQuery(XRegion)})

ListCompanies(s) ==
    /\ sess[s].pc = "idle"
    /\ last' = ListCompaniesResponse(s)
    /\ listed' = last'.body
    /\ touched' = {}
    /\ UnchangedTables
    /\ UNCHANGED <<files, sess, deleted204, submitted>>

GetCompanyResponse(s, id) ==
    IF HasCompany(id)
    THEN Response(s, "get_company", [id |-> id], 200,
                  Some(EnrichCompanyOutput(CompanyById(id))))
    ELSE Response(s, "get_company", [id |-> id], 404, None)

GetCompany(s, id) ==
    /\ sess[s].pc = "idle"
    /\ last' = GetCompanyResponse(s, id)
    /\ UnchangedTables
    /\ UNCHANGED <<files, sess>>
    /\ UnchangedGhosts

-----------------------------------------------------------------------------
(* PUT /companies/{company_id} *)

\* the attributes update_company sets on the loaded row: None where it sets
\* none
Updates(p, cert_path, logo_path) ==
    [name             |-> p.name,
     email            |-> p.email,
     phone            |-> p.phone,
     address          |-> p.address,
     city             |-> p.city,
     state            |-> p.state,
     country          |-> p.country,
     is_active        |-> p.is_active,
     branches         |-> IF p.branches # None
                          THEN Some(Join(p.branches[1])) ELSE None,
     certificate_path |-> cert_path,
     logo_path        |-> logo_path]

\* the setattr loop without its "is not None" test: an absent nullable field
\* is written as None
ApplyUpdatesUnguarded(c, set) ==
    [id               |-> c.id,
     name             |-> IF set.name # None THEN set.name[1] ELSE c.name,
     email            |-> IF set.email # None THEN set.email[1] ELSE c.email,
     phone            |-> IF set.phone # None THEN set.phone[1] ELSE c.phone,
     address          |-> set.address,
     city             |-> set.city,
     state            |-> set.state,
     country          |-> set.country,
     branches         |-> IF set.branches # None
                          THEN set.branches[1] ELSE c.branches,
     certificate_path |-> IF set.certificate_path # None
                          THEN set.certificate_path ELSE c.certificate_path,
     logo_path        |-> IF set.logo_path # None
                          THEN set.logo_path ELSE c.logo_path,
     is_active        |-> IF set.is_active # None
                          THEN set.is_active[1] ELSE c.is_active,
     created_at       |-> c.created_at]

\* the row after the UPDATE of the set attributes
ApplyUpdates(c, set) ==
    [id               |-> c.id,
     name             |-> IF set.name # None THEN set.name[1] ELSE c.name,
     email            |-> IF set.email # None THEN set.email[1] ELSE c.email,
     phone            |-> IF set.phone # None THEN set.phone[1] ELSE c.phone,
     address          |-> IF set.address # None THEN set.address ELSE c.address,
     city             |-> IF set.city # None THEN set.city ELSE c.city,
     state            |-> IF set.state # None THEN set.state ELSE c.state,
     country          |-> IF set.country # None THEN set.country ELSE c.country,
     branches         |-> IF set.branches # None
                          THEN set.branches[1] ELSE c.branches,
     certificate_path |-> IF set.certificate_path # None
                          THEN set.certificate_path ELSE c.certificate_path,
     logo_path        |-> IF set.logo_path # None
                          THEN set.logo_path ELSE c.logo_path,
     is_active        |-> IF set.is_active # None
                          THEN set.is_active[1] ELSE c.is_active,
     created_at       |-> c.created_at]

\* the lookup without the comparison to the row's own email
EmailConflictAnyRow(company, email) ==
    /\ email # None
    /\ EmailInUse(email[1])

\* if email and email != company.email: the email is looked up
EmailConflict(company, email) ==
    /\ email # None
    /\ email[1] # company.email
    /\ EmailInUse(email[1])

\* update_company up to the commit: the lookups, the setattr loop, the uploads
UpdateCompanyCheck(s, id, p, uc, ul) ==
    /\ sess[s].pc = "idle"
    /\ LET arg == [id |-> id, patch |-> p]
       IN  IF ~HasCompany(id)
           THEN /\ last' = Response(s, "update_company", arg, 404, None)
                /\ UNCHANGED <<sess, files>>
           ELSE IF EmailConflict(CompanyById(id), p.email)
           THEN /\ last' = Response(s, "update_company", arg, 400, None)
                /\ UNCHANGED <<sess, files>>
           ELSE LET cert == UploadPath(p.certificate, "uploads/certificates", uc)
                    logo == UploadPath(p.logo, "uploads/logos", ul)
                IN  /\ files' = files \cup Written(cert) \cup Written(logo)
                    /\ sess' = [sess EXCEPT ![s] =
                                  [pc  |-> "update_commit",
                                   id  |-> id,
                                   set |-> Updates(p, cert, logo),
                                   arg |-> arg]]
                    /\ last' = Pending(s, "update_company", arg)
    /\ UnchangedTables
    /\ UnchangedGhosts

\* db.commit(), db.refresh(company) and the response of update_company
UpdateCompanyCommit(s) ==
    /\ sess[s].pc = "update_commit"
    /\ LET id  == sess[s].id
           arg == sess[s].arg
       IN  IF ~HasCompany(id)
           THEN \* the UPDATE matches no row, the row cannot be refreshed
                /\ last' = Response(s, "update_company", arg, 500, None)
                /\ UNCHANGED <<companies, touched>>
           ELSE LET old  == CompanyById(id)
                    new  == ApplyUpdates(old, sess[s].set)
                    rows == (companies \ {old}) \cup {new}
                IN  IF ConstraintsHold(rows, employees)
                    THEN /\ companies' = rows
                         /\ touched' = touched \cup {id}
                         /\ last' = Response(s, "update_company", arg, 200,
                                             Some(EnrichCompanyOutput(new)))
                    ELSE \* IntegrityError: the transaction is rolled back
                         /\ last' = Response(s, "update_company", arg, 500, None)
                         /\ UNCHANGED <<companies, touched>>
    /\ sess' = [sess EXCEPT ![s] = Idle]
    /\ UNCHANGED <<employees, nextId, clock, files, listed, deleted204,
                   submitted, fkEnforced>>

-----------------------------------------------------------------------------
(* DELETE /companies/{company_id} *)

\* delete_company up to db.delete(company)
DeleteCompanyCheck(s, id) ==
    /\ sess[s].pc = "idle"
    /\ IF ~HasCompany(id)
       THEN /\ last' = Response(s, "delete_company", [id |-> id], 404, None)
            /\ UNCHANGED sess
       ELSE /\ sess' = [sess EXCEPT ![s] = [pc |-> "delete_commit", id |-> id]]
            /\ last' = Pending(s, "delete_company", [id |-> id])
    /\ UnchangedTables
    /\ UNCHANGED files
    /\ UnchangedGhosts

\* the commit without db.delete(company): the row stays
DeleteCompanyCommitKeepsRow(s) ==
    /\ sess[s].pc = "delete_commit"
    /\ deleted204' = [deleted204 EXCEPT ![sess[s].id] = @ + 1]
    /\ last' = Response(s, "delete_company", [id |-> sess[s].id], 204, None)
    /\ sess' = [sess EXCEPT ![s] = Idle]
    /\ UNCHANGED <<companies, employees, nextId, clock, files, listed, touched,
                   submitted, fkEnforced>>

\* db.commit() of delete_company and the 204 response
DeleteCompanyCommit(s) ==
    /\ sess[s].pc = "delete_commit"
    /\ LET id   == sess[s].id
           arg  == [id |-> id]
           rows == {c \in companies : c.id # id}
       IN  IF ConstraintsHold(rows, employees)
           THEN \* a DELETE that matches no row is not an error of the commit
                /\ companies' = rows
                /\ touched' = touched \cup {id}
                /\ deleted204' = [deleted204 EXCEPT ![id] = @ + 1]
                /\ last' = Response(s, "delete_company", arg, 204, None)
           ELSE \* IntegrityError: the transaction is rolled back
                /\ last' = Response(s, "delete_company", arg, 500, None)
                /\ UNCHANGED <<companies, touched, deleted204>>
    /\ sess' = [sess EXCEPT ![s] = Idle]
    /\ UNCHANGED <<employees, nextId, clock, files, listed, submitted, fkEnforced>>

-----------------------------------------------------------------------------
(* Passwords: pwd_context = CryptContext(schemes=["bcrypt"]) *)

\* the bcrypt digest of a password under a salt: one-way, and distinct for
\* distinct passwords or salts
Digest(password, salt) == <<"bcrypt", salt, password>>

\* pwd_context.hash(password): the scheme, a fresh salt and the digest
PwdHash(password, salt) == <<"$2b$", salt, Digest(password, salt)>>

\* a verify that only identifies the scheme of the hash
PwdVerifySchemeOnly(password, hash) ==
    /\ Len(hash) = 3
    /\ hash[1] = "$2b$"

\* pwd_context.verify(password, hash): the digest is recomputed under the
\* salt read from the hash
PwdVerify(password, hash) ==
    /\ Len(hash) = 3
    /\ hash[1] = "$2b$"
    /\ hash[3] = Digest(password, hash[2])

-----------------------------------------------------------------------------
(* Table employees *)

\* the columns of class Employee
EmployeeColumns == {"id", "name", "email", "password", "role", "company"}

\* the keyword arguments register_employee gives to Employee(...)
RegisterKwargs == {"name", "email", "password_hash", "role", "company"}

\* the declarative constructor raises TypeError on a keyword that is no
\* attribute of the mapped class
ConstructorAccepts(kwargs) == kwargs \subseteq EmployeeColumns

\* db.query(Employee).filter(Employee.email == email).first()
EmployeeEmailInUse(email) == \E e \in employees : e.email = email

EmployeeByEmail(email) == CHOOSE e \in employees : e.email = email

\* the lookup without its filter on the name
CompanyNamedAny(name) == companies # {}

\* db.query(Company).filter(Company.name == company_name).first()
CompanyNamed(name) == \E c \in companies : c.name = name

\* the id the database gives the next employee row (no row is ever removed)
NextEmployeeId == Cardinality(employees) + 1

\* response model EmployeeOut
EmployeeOut(e) ==
    [id      |-> e.id,
     name    |-> e.name,
     email   |-> e.email,
     role    |-> e.role,
     company |-> e.company]

\* Employee(name=..., email=..., password_hash=..., role=..., company=...)
NewEmployee(emp, hashed_password) ==
    [id            |-> NextEmployeeId,
     name          |-> emp.name,
     email         |-> emp.email,
     password_hash |-> hashed_password,
     role          |-> emp.role,
     company       |-> emp.company_name]

-----------------------------------------------------------------------------
(* POST /employees/register, GET /employees, POST /employees/login *)

RegisterEmployee(s, emp, salt) ==
    /\ sess[s].pc = "idle"
    /\ IF EmployeeEmailInUse(emp.email)
       THEN /\ last' = Response(s, "register_employee", emp, 400, None)
            /\ UNCHANGED <<employees, submitted>>
       ELSE IF ~CompanyNamed(emp.company_name)
       THEN /\ last' = Response(s, "register_employee", emp, 404, None)
            /\ UNCHANGED <<employees, submitted>>
       ELSE IF ~ConstructorAccepts(RegisterKwargs)
       THEN \* TypeError: an unhandled exception, a server error
            /\ last' = Response(s, "register_employee", emp, 500, None)
            /\ UNCHANGED <<employees, submitted>>
       ELSE LET new_emp == NewEmployee(emp, PwdHash(emp.password, salt))
            IN  /\ employees' = employees \cup {new_emp}
                /\ submitted' = submitted \cup
                                  {[id |-> new_emp.id, password |-> emp.password]}
                /\ last' = Response(s, "register_employee", emp, 200,
                                    Some(EmployeeOut(new_emp)))
    /\ UNCHANGED <<companies, nextId, clock, files, sess, listed, touched,
                   deleted204, fkEnforced>>

ListEmployees(s) ==
    /\ sess[s].pc = "idle"
    /\ last' = Response(s, "list_employees", None, 200,
                        {EmployeeOut(e) : e \in employees})
    /\ UnchangedTables
    /\ UNCHANGED <<files, sess>>
    /\ UnchangedGhosts

LoginResponse(s, emp) ==
    IF \/ ~EmployeeEmailInUse(emp.email)
       \/ ~PwdVerify(emp.password, EmployeeByEmail(emp.email).password)
    THEN Response(s, "login_employee", emp, 401, None)
    ELSE LET employee == EmployeeByEmail(emp.email)
         IN  Response(s, "login_employee", emp, 200,
                      Some([message     |-> "Login successful",
                            employee_id |-> employee.id,
                            name        |-> employee.name,
                            role        |-> employee.role]))

LoginEmployee(s, emp) ==
    /\ sess[s].pc = "idle"
    /\ last' = LoginResponse(s, emp)
    /\ UnchangedTables
    /\ UNCHANGED <<files, sess>>
    /\ UnchangedGhosts

-----------------------------------------------------------------------------
(* Requests *)

Ids == 1..MaxId

\* the uuid4 values of the two uploads of a request: random, and distinct
Uuids == {<<"u1", "u2">>, <<"u2", "u1">>}

Chars == {"a", ","}

\* branch labels: "", "a" and ","
Labels == {<<>>} \cup {<<c>> : c \in Chars}

\* the non-empty lists of at most MaxBranches labels
BranchLists == UNION {[1..n -> Labels] : n \in 1..MaxBranches}

\* the form of POST /companies
CreateForm(email, branches, city, certificate) ==
    [name        |-> "Acme",
     email       |-> email,
     phone       |-> "555",
     address     |-> None,
     city        |-> city,
     state       |-> "CA",
     country     |-> "US",
     branches    |-> branches,
     is_active   |-> TRUE,
     certificate |-> certificate,
     logo        |-> None]

\* the form of PUT /companies/{company_id} with every field absent
EmptyForm ==
    [name        |-> None,
     email       |-> None,
     phone       |-> None,
     address     |-> None,
     city        |-> None,
     state       |-> None,
     country     |-> None,
     branches    |-> None,
     is_active   |-> None,
     certificate |-> None,
     logo        |-> None]

Emails == {"a@x.com", "b@x.com"}

PdfFile == [stem |-> "cert", ext |-> ".pdf"]

BranchForms == {CreateForm(e, b, None, None) : e \in Emails, b \in BranchLists}

CreateForms == {CreateForm(e, <<<<"a">>, <<"a">>>>, None, None) : e \in Emails}

UpdateForms ==
    {[EmptyForm EXCEPT !.city = Some("X")],
     [EmptyForm EXCEPT !.is_active = Some(FALSE)],
     [EmptyForm EXCEPT !.branches = Some(<<<<"a">>>>)],
     [EmptyForm EXCEPT !.certificate = Some(PdfFile)],
     [EmptyForm EXCEPT !.email = Some("b@x.com"), !.city = Some("X")]}
    \cup {[EmptyForm EXCEPT !.email = Some(e)] : e \in Emails}

RaceCreateForms == {CreateForm(e, <<<<"a">>>>, None, None) : e \in Emails}

RaceUpdateForms == {[EmptyForm EXCEPT !.email = Some(e)] : e \in Emails}

ListUpdateForms ==
    {[EmptyForm EXCEPT !.city = Some("X")],
     [EmptyForm EXCEPT !.email = Some("b@x.com")]}

Passwords == {<<"pw1">>, <<"pw2">>}

Salts == {"s1"}

EmployeeEmails == {"al@x.com", "bo@x.com", "cy@x.com"}

RegisterBodies ==
    [name : {"Cy"}, email : EmployeeEmails, password : Passwords,
     role : {"admin"}, company_name : {"Acme", "Nope"}]

LoginBodies == [email : EmployeeEmails, password : Passwords]

-----------------------------------------------------------------------------
(* The database when the process starts *)

\* Base.metadata.create_all on an empty database: two empty tables
InitFresh ==
    /\ companies = {}
    /\ employees = {}
    /\ nextId = 1
    /\ clock = 1
    /\ files = {}
    /\ sess = [s \in Slots |-> Idle]
    /\ last = Response(1, "start", None, 0, None)
    /\ listed = {}
    /\ touched = {}
    /\ deleted204 = [id \in Ids |-> 0]
    /\ submitted = {}
    /\ fkEnforced \in BOOLEAN

\* rows an earlier run of the service stored: create_all leaves the tables
\* of a database that has them as they are
StoredCompany ==
    [id |-> 1, name |-> "Acme", email |-> "a@x.com", phone |-> "555",
     address |-> None, city |-> None, state |-> Some("CA"),
     country |-> Some("US"), branches |-> <<"a">>,
     certificate_path |-> None, logo_path |-> None, is_active |-> TRUE,
     created_at |-> 0]

StoredEmployee(id, name, email, password, salt) ==
    [id |-> id, name |-> name, email |-> email,
     password |-> PwdHash(password, salt), role |-> "admin",
     company |-> "Acme"]

Al == StoredEmployee(1, "Al", "al@x.com", <<"pw1">>, "s1")

Bo == StoredEmployee(2, "Bo", "bo@x.com", <<"pw2">>, "s2")

InitStored ==
    /\ companies = {StoredCompany}
    /\ employees \in {{}, {Al}, {Al, Bo}}
    /\ nextId = 2
    /\ clock = 1
    /\ files = {}
    /\ sess = [s \in Slots |-> Idle]
    /\ last = Response(1, "start", None, 0, None)
    /\ listed = {}
    /\ touched = {}
    /\ deleted204 = [id \in Ids |-> 0]
    /\ submitted = {r \in {[id |-> 1, password |-> <<"pw1">>],
                           [id |-> 2, password |-> <<"pw2">>]} :
                      \E e \in employees : e.id = r.id}
    /\ fkEnforced \in BOOLEAN

-----------------------------------------------------------------------------
(* Specifications *)

\* one client at a time: every company request, each run to its response
NextBranch ==
    \/ \E in \in BranchForms, u \in Uuids : CreateCompanyCheck(1, in, u[1], u[2])
    \/ CreateCompanyCommit(1)
    \/ \E id \in Ids : GetCompany(1, id)

SpecBranch == InitFresh /\ [][NextBranch]_vars

Next ==
    \/ \E in \in CreateForms, u \in Uuids : CreateCompanyCheck(1, in, u[1], u[2])
    \/ CreateCompanyCommit(1)
    \/ \E id \in Ids : GetCompany(1, id)
    \/ \E id \in Ids, p \in UpdateForms, u \in Uuids :
           UpdateCompanyCheck(1, id, p, u[1], u[2])
    \/ UpdateCompanyCommit(1)
    \/ \E id \in Ids : DeleteCompanyCheck(1, id)
    \/ DeleteCompanyCommit(1)

Spec == InitFresh /\ [][Next]_vars

\* a client that lists the companies and gets each, among other requests
NextList ==
    \/ \E in \in RaceCreateForms, u \in Uuids : CreateCompanyCheck(1, in, u[1], u[2])
    \/ CreateCompanyCommit(1)
    \/ ListCompanies(1)
    \/ \E id \in Ids : GetCompany(1, id)
    \/ \E id \in Ids, p \in ListUpdateForms, u \in Uuids :
           UpdateCompanyCheck(1, id, p, u[1], u[2])
    \/ UpdateCompanyCommit(1)
    \/ \E id \in Ids : DeleteCompanyCheck(1, id)
    \/ DeleteCompanyCommit(1)

SpecList == InitFresh /\ [][NextList]_vars

\* two clients whose requests interleave at the commits
NextRace ==
    \/ \E s \in Slots, in \in RaceCreateForms, u \in Uuids :
           CreateCompanyCheck(s, in, u[1], u[2])
    \/ \E s \in Slots : CreateCompanyCommit(s)
    \/ \E s \in Slots, id \in Ids, p \in RaceUpdateForms, u \in Uuids :
           UpdateCompanyCheck(s, id, p, u[1], u[2])
    \/ \E s \in Slots : UpdateCompanyCommit(s)
    \/ \E s \in Slots, id \in Ids : DeleteCompanyCheck(s, id)
    \/ \E s \in Slots : DeleteCompanyCommit(s)

SpecRace == InitFresh /\ [][NextRace]_vars

\* the employee requests, over a database that may hold rows already
NextEmployee ==
    \/ \E emp \in RegisterBodies, salt \in Salts : RegisterEmployee(1, emp, salt)
    \/ ListEmployees(1)
    \/ \E emp \in LoginBodies : LoginEmployee(1, emp)
    \/ \E in \in RaceCreateForms, u \in Uuids : CreateCompanyCheck(1, in, u[1], u[2])
    \/ CreateCompanyCommit(1)
    \/ \E id \in Ids : DeleteCompanyCheck(1, id)
    \/ DeleteCompanyCommit(1)

SpecEmployee == InitStored /\ [][NextEmployee]_vars

-----------------------------------------------------------------------------
(* Properties *)

\* the step taken is the first step of a handler `op`: its queries and checks
CheckStep(op) == last'.op = op /\ sess[last'.slot].pc = "idle"

\* the step taken is the commit of a handler `op`
CommitStep(op) == last'.op = op /\ sess[last'.slot].pc # "idle"

\* the rows of a table with a given id
RowsWithId(rows, id) == {c \in rows : c.id = id}

\* C1: a create_company whose email no row holds succeeds, and a get_company
\* on the returned id then returns the submitted branches list, element for
\* element and in order.
C1_BranchesRoundTrip ==
    (last.op = "create_company" /\ last.status # 0 /\ last.status # 400) =>
        /\ last.status = 200
        /\ GetCompanyResponse(1, last.body[1].id).status = 200
        /\ GetCompanyResponse(1, last.body[1].id).body[1].branches
               = last.arg.branches

\* C2: register_employee with an email no employee row holds and the name
\* of an existing company succeeds: it adds exactly one row, which references
\* the company by name and stores the hash of the password, and returns the
\* record without the password.
C2_RegisterSucceeds ==
    [][(/\ last'.op = "register_employee"
        /\ ~\E e \in employees : e.email = last'.arg.email
        /\ \E c \in companies : c.name = last'.arg.company_name)
       => /\ last'.status = 200
          /\ \E e \in employees' :
                /\ employees' = employees \cup {e}
                /\ e \notin employees
                /\ e.email = last'.arg.email
                /\ e.company = last'.arg.company_name
                /\ PwdVerify(last'.arg.password, e.password)
                /\ last'.body = Some([id |-> e.id, name |-> e.name,
                                      email |-> e.email, role |-> e.role,
                                      company |-> e.company])]_vars

\* C3: in every reachable state, under every interleaving of create, update
\* and delete requests, no two company rows have the same email.
C3_UniqueCompanyEmails ==
    \A c, d \in companies : c.email = d.email => c = d

\* two creates passed the email check and the commit of the second was
\* refused
C3_Witness ==
    /\ last.op = "create_company"
    /\ last.status = 500
    /\ \E c \in companies : c.email = last.arg.email

\* C4: create_company with the email of an existing row answers 400 and
\* leaves the company rows as they are.
C4_CreateConflict ==
    [][(/\ CheckStep("create_company")
        /\ \E c \in companies : c.email = last'.arg.email)
       => /\ last'.status = 400
          /\ companies' = companies
          /\ sess' = sess
          /\ nextId' = nextId]_vars

C4_Witness ==
    /\ last.op = "create_company"
    /\ last.status = 400
    /\ \E c \in companies : c.email = last.arg.email /\ ~c.is_active

\* an absent form field leaves the column at its value
Kept(field, new, old) == field = None => new = old

\* a present form field of a column that is not nullable stores its value
SetValue(field, new) == field # None => new = field[1]

\* a present form field of a nullable column stores its value
SetNullable(field, new) == field # None => new = field

\* C5: a successful update_company changes exactly the fields present in
\* the request: every absent field, the id and created_at of the row, and
\* every other row, keep their values, and every present field takes the
\* submitted value.
C5_PartialUpdate ==
    [][(last'.op = "update_company" /\ last'.status = 200) =>
        LET id   == last'.arg.id
            p    == last'.arg.patch
        IN  /\ Cardinality(RowsWithId(companies, id)) = 1
            /\ Cardinality(RowsWithId(companies', id)) = 1
            /\ companies' \ RowsWithId(companies', id)
                   = companies \ RowsWithId(companies, id)
            /\ employees' = employees
            /\ \A old \in RowsWithId(companies, id),
                  new \in RowsWithId(companies', id) :
                  /\ new.created_at = old.created_at
                  /\ Kept(p.name, new.name, old.name)
                  /\ Kept(p.email, new.email, old.email)
                  /\ Kept(p.phone, new.phone, old.phone)
                  /\ Kept(p.address, new.address, old.address)
                  /\ Kept(p.city, new.city, old.city)
                  /\ Kept(p.state, new.state, old.state)
                  /\ Kept(p.country, new.country, old.country)
                  /\ Kept(p.branches, new.branches, old.branches)
                  /\ Kept(p.is_active, new.is_active, old.is_active)
                  /\ Kept(p.certificate, new.certificate_path,
                          old.certificate_path)
                  /\ Kept(p.logo, new.logo_path, old.logo_path)
                  /\ SetValue(p.name, new.name)
                  /\ SetValue(p.email, new.email)
                  /\ SetValue(p.phone, new.phone)
                  /\ SetNullable(p.address, new.address)
                  /\ SetNullable(p.city, new.city)
                  /\ SetNullable(p.state, new.state)
                  /\ SetNullable(p.country, new.country)
                  /\ SetValue(p.is_active, new.is_active)
                  /\ p.branches # None
                         => new.branches = Join(p.branches[1])
                  /\ p.certificate # None
                         => /\ new.certificate_path # None
                            /\ new.certificate_path[1] \in files
                  /\ p.logo # None
                         => /\ new.logo_path # None
                            /\ new.logo_path[1] \in files]_vars

\* an update that carried only is_active answered 200 on a row whose city
\* an earlier update had set
C5_Witness ==
    /\ last.op = "update_company"
    /\ last.status = 200
    /\ last.arg.patch = [EmptyForm EXCEPT !.is_active = Some(FALSE)]
    /\ last.body[1].city = Some("X")
    /\ last.body[1].is_active = FALSE
    /\ Cardinality(companies) = 2

\* C6: update_company on an existing id with an email that differs from the
\* row's and that another row holds answers 400 and changes no row, also
\* when the request carries other fields; an update with the row's own
\* email is not answered 400.
C6_UpdateConflict ==
    [][/\ CheckStep("update_company") =>
            \A c \in RowsWithId(companies, last'.arg.id) :
                LET email == last'.arg.patch.email
                IN  /\ (/\ email # None
                        /\ email[1] # c.email
                        /\ \E d \in companies : d.email = email[1])
                       => /\ last'.status = 400
                          /\ companies' = companies
                          /\ sess' = sess
                          /\ files' = files
                    /\ (email # None /\ email[1] = c.email)
                       => last'.status = 0
       /\ CommitStep("update_company") =>
            \A c \in RowsWithId(companies, last'.arg.id) :
                LET email == last'.arg.patch.email
                IN  (email # None /\ email[1] = c.email) => last'.status = 200
      ]_vars

\* an update with another row's email and a city answered 400
C6_Witness ==
    /\ last.op = "update_company"
    /\ last.status = 400
    /\ last.arg.patch.city # None
    /\ \E c \in companies : c.id = last.arg.id /\ c.city = None

\* C7 as stated: a delete of the same id never succeeds twice.
C7_NeverSucceedsTwice == \A id \in Ids : deleted204[id] <= 1

\* C7, amended: delete_company on an id with no row answers 404 and changes
\* no state, and a delete_company that starts after a delete of that id was
\* answered 204 is answered 404.
C7_DeleteThenNotFound ==
    [][CheckStep("delete_company") =>
        LET id == last'.arg.id
        IN  /\ RowsWithId(companies, id) = {}
                => /\ last'.status = 404
                   /\ companies' = companies
                   /\ employees' = employees
                   /\ sess' = sess
                   /\ files' = files
            /\ deleted204[id] > 0 => last'.status = 404]_vars

\* a delete answered 404 on an id whose delete had answered 204, after
\* another company was created
C7_Witness ==
    /\ last.op = "delete_company"
    /\ last.status = 404
    /\ deleted204[last.arg.id] > 0
    /\ companies # {}

C10_ListThenGet ==
    \A r \in listed :
        /\ GetCompanyResponse(1, r.id).status = 200
        /\ GetCompanyResponse(1, r.id).body = Some(r)

\* C10, amended: list_companies returns every company row, and every record
\* of a list is what a later get_company on its id returns, unless an update
\* or a delete of that row was committed in between.
C10_ListThenGetUntouched ==
    /\ last.op = "list_companies" =>
          /\ \A c \in companies : \E r \in last.body : r.id = c.id
          /\ \A r \in last.body : \E c \in companies : r.id = c.id
    /\ \A r \in listed :
          r.id \notin touched =>
              /\ GetCompanyResponse(1, r.id).status = 200
              /\ GetCompanyResponse(1, r.id).body = Some(r)

\* a get returned a listed record after another row was updated or deleted
C10_Witness ==
    /\ last.op = "get_company"
    /\ last.status = 200
    /\ last.body[1] \in listed
    /\ touched # {}
    /\ last.body[1].city # None

====
